---- MODULE Spec2Model ----
(***************************************************************************)
(* State-machine model of the eTuitionBD server (src/index.js): the four   *)
(* MongoDB collections, the verifyFBToken middleware, the user routes, the *)
(* tuition routes, the application routes and the hiring workflow of POST  *)
(* /payments.                                                              *)
(*                                                                         *)
(* Identifiers.  A request carries an id as a string.  The model writes    *)
(* such a string as a natural number: 0 is a string that is no object id   *)
(* ("not-an-object-id"), n > 0 is the 24-digit hex string of the n-th      *)
(* ObjectId the driver generated for that collection.                      *)
(*                                                                         *)
(* Suspension points.  A handler runs without interruption between two     *)
(* awaits.  POST /payments issues four writes with an await after each;    *)
(* they are four actions, so that other requests interleave between them.  *)
(* POST /users awaits its findOne before its insertOne; it is two actions. *)
(* The other handlers are one action each.                                 *)
(***************************************************************************)
EXTENDS Naturals, FiniteSets, Sequences, TLC

(* Bounds of the model: how many documents each collection ever receives. *)
MaxTuitions == 2
MaxApplications == 2
MaxPayments == 2
MaxRegistrations == 2

(* A request id that ObjectId() refuses. *)
Malformed == 0

(* A field a JSON body does not carry. *)
Undefined == "undefined"

(* insertedId: null in an answer of POST /users. *)
Null == 0

VARIABLES
    userCollection,         \* set of user documents
    tuitionCollection,      \* set of tuition documents
    applicationCollection,  \* set of application documents
    paymentCollection,      \* set of payment documents
    tuitionIds,             \* number of ObjectIds generated for tuitions
    hiring,                 \* the POST /payments requests, in order of arrival
    registering,            \* the POST /users requests, in order of arrival
    res                     \* status code of the last response of a one-step handler

vars == <<userCollection, tuitionCollection, applicationCollection,
          paymentCollection, tuitionIds, hiring, registering, res>>

----------------------------------------------------------------------------
(* JavaScript and driver helpers *)

(* String.prototype.toLowerCase on the e-mail addresses of the model. *)
toLowerCase(s) ==
    CASE s = "Stu" -> "stu"
      [] s = "New" -> "new"
      [] s = "Tut" -> "tut"
      [] s = "Adm" -> "adm"
      [] OTHER -> s

(* JavaScript truthiness of a body field (a string or undefined). *)
Truthy(v) == v # Undefined /\ v # ""

(* new ObjectId(s) throws on a string that is no object id. *)
ObjectIdThrows(s) == s = Malformed

(* new ObjectId(s) for a well-formed s. *)
ObjectId(s) == s

(* collection.findOne({_id}) : the set of matching documents (0 or 1). *)
FindById(coll, oid) == {d \in coll : d._id = oid}

(* collection.updateOne({_id}, {$set: {status}}) *)
SetStatusById(coll, oid, st) ==
    {IF d._id = oid THEN [d EXCEPT !.status = st] ELSE d : d \in coll}

----------------------------------------------------------------------------
(* verifyFBToken *)

(* Credentials of a request: no Authorization header, a token the identity *)
(* verifier rejects, or a token the verifier decodes to an e-mail.         *)
NoHeader == "no-header"
InvalidToken == "invalid-token"

(* Status the middleware answers with, 0 when it calls next().             *)
verifyFBToken(cred) ==
    IF cred = NoHeader THEN 401
    ELSE IF cred = InvalidToken THEN 401
    ELSE IF {u \in userCollection : u.email = toLowerCase(cred)} = {} THEN 403
    ELSE 0

(* Status the middleware answers with when its userCollection.findOne     *)
(* rejects: the header check is outside the try, the verifier and the     *)
(* store are inside it, and the catch answers 401 for whatever was thrown. *)
verifyFBTokenStoreFails(cred) ==
    IF cred = NoHeader THEN 401
    ELSE IF cred = InvalidToken THEN 401
    ELSE 401

VerifyFBTokenStoreFails(cred) ==
    /\ res' = verifyFBTokenStoreFails(cred)
    /\ UNCHANGED <<userCollection, registering, tuitionCollection,
                   applicationCollection, paymentCollection, tuitionIds, hiring>>

(* A req.decoded_email that keeps the case of the token's e-mail. *)
decoded_emailAsInToken(cred) == cred

(* req.decoded_email *)
decoded_email(cred) == toLowerCase(cred)

(* req.user *)
reqUser(cred) ==
    LET found == {u \in userCollection : u.email = toLowerCase(cred)} IN
    CHOOSE u \in found : \A v \in found : u._id <= v._id

----------------------------------------------------------------------------
(* Tuition routes *)

(* A POST /tuitions registered without the verifyFBToken middleware. *)
postTuitionsWithoutMiddleware(cred, body) ==
    [code |-> 200,
     tuitions |-> tuitionCollection \cup
         {[_id |-> tuitionIds + 1,
           email |-> decoded_email(cred),
           status |-> "pending"]}]

(* POST /tuitions: status, email and createdAt of the body are overwritten. *)
postTuitions(cred, body) ==
    LET auth == verifyFBToken(cred) IN
    IF auth # 0 THEN [code |-> auth, tuitions |-> tuitionCollection]
    ELSE [code |-> 200,
          tuitions |-> tuitionCollection \cup
              {[_id |-> tuitionIds + 1,
                email |-> decoded_email(cred),
                status |-> "pending"]}]

PostTuitions(cred, body) ==
    /\ tuitionIds < MaxTuitions
    /\ LET r == postTuitions(cred, body) IN
         /\ tuitionCollection' = r.tuitions
         /\ tuitionIds' = IF r.code = 200 THEN tuitionIds + 1 ELSE tuitionIds
         /\ res' = r.code
    /\ UNCHANGED <<userCollection, registering, applicationCollection, paymentCollection,
                   hiring>>

(* A validation that lets an admin confirm a tuition by hand. *)
validAdminStatusesWithConfirmed == {"approved", "rejected", "confirmed"}

(* const validAdminStatuses of the admin branch. *)
validAdminStatuses == {"approved", "rejected"}

(* A creator branch that forgets to reset the status. *)
creatorEditStatusKept == Undefined

(* updateFields.status of the creator branch. *)
creatorEditStatus == "pending"

(* A $set whose updateFields still carries the status of the body.        *)
setTuitionFieldsWithBodyStatus(doc, body, status, keepEmail) ==
    [doc EXCEPT
        !.status = IF status # Undefined THEN status
                   ELSE IF body.status # Undefined THEN body.status ELSE @,
        !.email = IF keepEmail \/ body.email = Undefined THEN @ ELSE body.email]

(* A $set that sends a tuition back to pending when the role branch      *)
(* decided no status.                                                     *)
setTuitionFieldsResettingStatus(doc, body, status, keepEmail) ==
    [doc EXCEPT
        !.status = IF status = Undefined THEN "pending" ELSE status,
        !.email = IF keepEmail \/ body.email = Undefined THEN @ ELSE body.email]

(* The $set of PATCH /tuitions/:id applied to one document: updateFields  *)
(* is the body without status, plus the status the role branch decided.   *)
(* keepEmail is the creator branch's delete updateFields.email.           *)
setTuitionFields(doc, body, status, keepEmail) ==
    [doc EXCEPT
        !.status = IF status = Undefined THEN @ ELSE status,
        !.email = IF keepEmail \/ body.email = Undefined THEN @ ELSE body.email]

(* A PATCH /tuitions/:id whose last branch lets any verified caller edit. *)
patchTuitionsIdAnyCaller(cred, id, body) ==
    LET auth == verifyFBToken(cred)
        same == [code |-> 0, tuitions |-> tuitionCollection]
    IN
    IF auth # 0 THEN [same EXCEPT !.code = auth]
    ELSE IF ObjectIdThrows(id) THEN [same EXCEPT !.code = 500]
    ELSE LET found == FindById(tuitionCollection, ObjectId(id)) IN
    IF found = {} THEN [same EXCEPT !.code = 404]
    ELSE LET user == reqUser(cred)
             write(status, keepEmail) ==
                [code |-> 200,
                 tuitions |->
                    {IF d._id = ObjectId(id)
                        THEN setTuitionFields(d, body, status, keepEmail)
                        ELSE d : d \in tuitionCollection}]
         IN
         IF user.role = "admin" THEN
              IF body.status \in validAdminStatuses THEN write(body.status, FALSE)
              ELSE IF Truthy(body.status) THEN [same EXCEPT !.code = 400]
              ELSE write(Undefined, FALSE)
         ELSE write(creatorEditStatus, TRUE)

(* PATCH /tuitions/:id: the response code and the collection afterwards. *)
patchTuitionsId(cred, id, body) ==
    LET auth == verifyFBToken(cred)
        same == [code |-> 0, tuitions |-> tuitionCollection]
    IN
    IF auth # 0 THEN [same EXCEPT !.code = auth]
    ELSE IF ObjectIdThrows(id) THEN [same EXCEPT !.code = 500]
    ELSE LET found == FindById(tuitionCollection, ObjectId(id)) IN
    IF found = {} THEN [same EXCEPT !.code = 404]
    ELSE LET existingTuition == CHOOSE d \in found : TRUE
             user == reqUser(cred)
             write(status, keepEmail) ==
                [code |-> 200,
                 tuitions |->
                    {IF d._id = ObjectId(id)
                        THEN setTuitionFields(d, body, status, keepEmail)
                        ELSE d : d \in tuitionCollection}]
         IN
         IF user.role = "admin" THEN
              IF body.status \in validAdminStatuses THEN write(body.status, FALSE)
              ELSE IF Truthy(body.status) THEN [same EXCEPT !.code = 400]
              ELSE write(Undefined, FALSE)
         ELSE IF existingTuition.email = user.email THEN write(creatorEditStatus, TRUE)
         ELSE [same EXCEPT !.code = 403]

PatchTuitionsId(cred, id, body) ==
    /\ LET r == patchTuitionsId(cred, id, body) IN
         /\ tuitionCollection' = r.tuitions
         /\ res' = r.code
    /\ UNCHANGED <<userCollection, registering, applicationCollection, paymentCollection,
                   tuitionIds, hiring>>

(* A DELETE /tuitions/:id without the ownership check. *)
deleteTuitionsIdAnyCaller(cred, id) ==
    LET auth == verifyFBToken(cred)
        same == [code |-> 0, tuitions |-> tuitionCollection]
    IN
    IF auth # 0 THEN [same EXCEPT !.code = auth]
    ELSE IF ObjectIdThrows(id) THEN [same EXCEPT !.code = 500]
    ELSE LET found == FindById(tuitionCollection, ObjectId(id)) IN
    IF found = {} THEN [same EXCEPT !.code = 404]
    ELSE [code |-> 200, tuitions |-> tuitionCollection \ found]

(* DELETE /tuitions/:id *)
deleteTuitionsId(cred, id) ==
    LET auth == verifyFBToken(cred)
        same == [code |-> 0, tuitions |-> tuitionCollection]
    IN
    IF auth # 0 THEN [same EXCEPT !.code = auth]
    ELSE IF ObjectIdThrows(id) THEN [same EXCEPT !.code = 500]
    ELSE LET found == FindById(tuitionCollection, ObjectId(id)) IN
    IF found = {} THEN [same EXCEPT !.code = 404]
    ELSE LET existingTuition == CHOOSE d \in found : TRUE
             user == reqUser(cred)
         IN
         IF existingTuition.email # user.email /\ user.role # "admin"
            THEN [same EXCEPT !.code = 403]
            ELSE [code |-> 200, tuitions |-> tuitionCollection \ found]

DeleteTuitionsId(cred, id) ==
    /\ LET r == deleteTuitionsId(cred, id) IN
         /\ tuitionCollection' = r.tuitions
         /\ res' = r.code
    /\ UNCHANGED <<userCollection, registering, applicationCollection, paymentCollection,
                   tuitionIds, hiring>>

----------------------------------------------------------------------------
(* Application routes *)

(* POST /applications: the body is stored as sent, tutorEmail overwritten. *)
postApplications(cred, body) ==
    LET auth == verifyFBToken(cred) IN
    IF auth # 0 THEN [code |-> auth, applications |-> applicationCollection]
    ELSE [code |-> 200,
          applications |-> applicationCollection \cup
              {[_id |-> Cardinality(applicationCollection) + 1,
                tuitionId |-> body.tuitionId,
                tutorEmail |-> decoded_email(cred),
                studentEmail |-> body.studentEmail,
                status |-> body.status]}]

PostApplications(cred, body) ==
    /\ Cardinality(applicationCollection) < MaxApplications
    /\ LET r == postApplications(cred, body) IN
         /\ applicationCollection' = r.applications
         /\ res' = r.code
    /\ UNCHANGED <<userCollection, registering, tuitionCollection, paymentCollection,
                   tuitionIds, hiring>>

(* A reject route whose filter names the tutor of the application. *)
patchApplicationsRejectIdByTutor(cred, id) ==
    LET auth == verifyFBToken(cred)
        same == [code |-> 0, applications |-> applicationCollection]
    IN
    IF auth # 0 THEN [same EXCEPT !.code = auth]
    ELSE IF ObjectIdThrows(id) THEN [same EXCEPT !.code = 500]
    ELSE LET matched == {d \in applicationCollection :
                            /\ d._id = ObjectId(id)
                            /\ d.tutorEmail = decoded_email(cred)}
             modifiedCount == Cardinality({d \in matched : d.status # "rejected"})
         IN
         IF modifiedCount = 0 THEN [same EXCEPT !.code = 404]
         ELSE [code |-> 200,
               applications |->
                  {IF d \in matched THEN [d EXCEPT !.status = "rejected"] ELSE d :
                      d \in applicationCollection}]

(* A reject route whose filter is the _id alone. *)
patchApplicationsRejectIdAnyCaller(cred, id) ==
    LET auth == verifyFBToken(cred)
        same == [code |-> 0, applications |-> applicationCollection]
    IN
    IF auth # 0 THEN [same EXCEPT !.code = auth]
    ELSE IF ObjectIdThrows(id) THEN [same EXCEPT !.code = 500]
    ELSE LET matched == {d \in applicationCollection : d._id = ObjectId(id)}
             modifiedCount == Cardinality({d \in matched : d.status # "rejected"})
         IN
         IF modifiedCount = 0 THEN [same EXCEPT !.code = 404]
         ELSE [code |-> 200,
               applications |->
                  {IF d \in matched THEN [d EXCEPT !.status = "rejected"] ELSE d :
                      d \in applicationCollection}]

(* PATCH /applications/reject/:id: the filter is {_id, studentEmail}.      *)
patchApplicationsRejectId(cred, id) ==
    LET auth == verifyFBToken(cred)
        same == [code |-> 0, applications |-> applicationCollection]
    IN
    IF auth # 0 THEN [same EXCEPT !.code = auth]
    ELSE IF ObjectIdThrows(id) THEN [same EXCEPT !.code = 500]
    ELSE LET matched == {d \in applicationCollection :
                            /\ d._id = ObjectId(id)
                            /\ d.studentEmail = decoded_email(cred)}
             modifiedCount == Cardinality({d \in matched : d.status # "rejected"})
         IN
         IF modifiedCount = 0 THEN [same EXCEPT !.code = 404]
         ELSE [code |-> 200,
               applications |->
                  {IF d \in matched THEN [d EXCEPT !.status = "rejected"] ELSE d :
                      d \in applicationCollection}]

PatchApplicationsRejectId(cred, id) ==
    /\ LET r == patchApplicationsRejectId(cred, id) IN
         /\ applicationCollection' = r.applications
         /\ res' = r.code
    /\ UNCHANGED <<userCollection, registering, tuitionCollection, paymentCollection,
                   tuitionIds, hiring>>

----------------------------------------------------------------------------
(* POST /payments: the hiring workflow *)

(* The run after its next await has thrown or the handler has answered. *)
Advance(r, pc) == [hiring EXCEPT ![r].pc = pc]

(* The run after the store has performed its write w. *)
Performed(r, w, pc) ==
    [hiring EXCEPT ![r].pc = pc, ![r].writes = Append(@, w)]

(* The request passes verifyFBToken and issues write 1, the payment insert. *)
PostPayments(cred, paymentInfo) ==
    /\ Len(hiring) < MaxPayments
    /\ LET auth == verifyFBToken(cred) IN
         IF auth # 0
         THEN /\ res' = auth
              /\ UNCHANGED <<paymentCollection, hiring>>
         ELSE /\ paymentCollection' = paymentCollection \cup
                    {[_id |-> Len(hiring) + 1,
                      applicationId |-> paymentInfo.applicationId,
                      tuitionId |-> paymentInfo.tuitionId,
                      paymentStatus |-> "paid"]}
              /\ hiring' = Append(hiring,
                    [applicationId |-> paymentInfo.applicationId,
                     tuitionId |-> paymentInfo.tuitionId,
                     caller |-> decoded_email(cred),
                     writes |-> <<"insert">>,
                     pc |-> "accept"])
              /\ UNCHANGED res
    /\ UNCHANGED <<userCollection, registering, tuitionCollection, applicationCollection,
                   tuitionIds>>

(* A write 2 that waits while another run for the same tuition is        *)
(* between its write 2 and its write 3.                                   *)
HiringAcceptExclusive(r) ==
    /\ r \in DOMAIN hiring
    /\ hiring[r].pc = "accept"
    /\ ~ \E q \in DOMAIN hiring :
            /\ q # r
            /\ hiring[q].pc = "rejectOthers"
            /\ hiring[q].tuitionId = hiring[r].tuitionId
    /\ IF ObjectIdThrows(hiring[r].applicationId)
       THEN /\ hiring' = [hiring EXCEPT ![r].pc = "failed"]
            /\ UNCHANGED applicationCollection
       ELSE /\ applicationCollection' =
                  SetStatusById(applicationCollection,
                                ObjectId(hiring[r].applicationId), "accepted")
            /\ hiring' = Performed(r, "accept", "rejectOthers")
    /\ UNCHANGED <<userCollection, registering, tuitionCollection, paymentCollection,
                   tuitionIds, res>>

(* Write 2: applicationCollection.updateOne({_id}, {$set: {status: "accepted"}}). *)
(* new ObjectId(paymentInfo.applicationId) may throw: the catch answers 500.      *)
HiringAccept(r) ==
    /\ r \in DOMAIN hiring
    /\ hiring[r].pc = "accept"
    /\ IF ObjectIdThrows(hiring[r].applicationId)
       THEN /\ hiring' = Advance(r, "failed")
            /\ UNCHANGED applicationCollection
       ELSE /\ applicationCollection' =
                  SetStatusById(applicationCollection,
                                ObjectId(hiring[r].applicationId), "accepted")
            /\ hiring' = Performed(r, "accept", "rejectOthers")
    /\ UNCHANGED <<userCollection, registering, tuitionCollection, paymentCollection,
                   tuitionIds, res>>

(* A filter of write 3 without the $ne on _id. *)
CompetingWithoutNe(run) ==
    {d \in applicationCollection : d.tuitionId = run.tuitionId}

(* The filter of write 3: same tuitionId string, another _id. *)
Competing(run) ==
    {d \in applicationCollection :
        /\ d.tuitionId = run.tuitionId
        /\ d._id # ObjectId(run.applicationId)}

(* Write 3: applicationCollection.updateMany(..., {$set: {status: "rejected"}}). *)
HiringRejectOthers(r) ==
    /\ r \in DOMAIN hiring
    /\ hiring[r].pc = "rejectOthers"
    /\ applicationCollection' =
          {IF d \in Competing(hiring[r]) THEN [d EXCEPT !.status = "rejected"] ELSE d :
              d \in applicationCollection}
    /\ hiring' = Performed(r, "rejectOthers", "confirm")
    /\ UNCHANGED <<userCollection, registering, tuitionCollection, paymentCollection,
                   tuitionIds, res>>

(* Write 4: tuitionCollection.updateOne({_id}, {$set: {status: "confirmed"}}), *)
(* then res.send({success: true}).  new ObjectId(paymentInfo.tuitionId) may    *)
(* throw: the catch answers 500.                                               *)
HiringConfirm(r) ==
    /\ r \in DOMAIN hiring
    /\ hiring[r].pc = "confirm"
    /\ IF ObjectIdThrows(hiring[r].tuitionId)
       THEN /\ hiring' = Advance(r, "failed")
            /\ UNCHANGED tuitionCollection
       ELSE /\ tuitionCollection' =
                  SetStatusById(tuitionCollection,
                                ObjectId(hiring[r].tuitionId), "confirmed")
            /\ hiring' = Performed(r, "confirm", "done")
    /\ UNCHANGED <<userCollection, registering, applicationCollection, paymentCollection,
                   tuitionIds, res>>

(* The order in which the handler issues its writes. *)
WriteNames == {"insert", "accept", "rejectOthers", "confirm"}
WriteOrder == <<"insert", "accept", "rejectOthers", "confirm">>

(* Write 1 rejects (the store is unreachable or errors): the catch answers *)
(* 500 and the workflow has performed no write.                            *)
PostPaymentsStoreFails(cred, paymentInfo) ==
    /\ Len(hiring) < MaxPayments
    /\ verifyFBToken(cred) = 0
    /\ hiring' = Append(hiring,
          [applicationId |-> paymentInfo.applicationId,
           tuitionId |-> paymentInfo.tuitionId,
           caller |-> decoded_email(cred),
           writes |-> <<>>,
           pc |-> "failed"])
    /\ UNCHANGED <<userCollection, registering, tuitionCollection,
                   applicationCollection, paymentCollection, tuitionIds, res>>

(* A failing write that also removes the payment record of its run. *)
HiringStoreFailsWithRollback(r) ==
    /\ r \in DOMAIN hiring
    /\ hiring[r].pc \in {"accept", "rejectOthers", "confirm"}
    /\ hiring' = Advance(r, "failed")
    /\ paymentCollection' = {p \in paymentCollection : p._id # r}
    /\ UNCHANGED <<userCollection, registering, tuitionCollection,
                   applicationCollection, tuitionIds, res>>

(* Write 2, 3 or 4 rejects: control passes to the catch, which answers 500 *)
(* and undoes nothing.                                                     *)
HiringStoreFails(r) ==
    /\ r \in DOMAIN hiring
    /\ hiring[r].pc \in {"accept", "rejectOthers", "confirm"}
    /\ hiring' = Advance(r, "failed")
    /\ UNCHANGED <<userCollection, registering, tuitionCollection,
                   applicationCollection, paymentCollection, tuitionIds, res>>

(* The request has no response. *)
NoResponse == 0

(* GET /tuition-applications/:tuitionId when its find rejects.  The       *)
(* handler has no try: the rejection of the async handler is answered 500 *)
(* by the default error handler of Express 5 and is left unhandled, with  *)
(* no response, by Express 4.                                             *)
getTuitionApplicationsStoreFails == {500, NoResponse}

GetTuitionApplicationsStoreFails(cred) ==
    /\ LET auth == verifyFBToken(cred) IN
         IF auth # 0 THEN res' = auth
         ELSE res' \in getTuitionApplicationsStoreFails
    /\ UNCHANGED <<userCollection, registering, tuitionCollection,
                   applicationCollection, paymentCollection, tuitionIds, hiring>>

(* A run is in flight until it has answered. *)
InFlight(r) == hiring[r].pc \in {"accept", "rejectOthers", "confirm"}

(* No POST /payments request is between its first write and its answer. *)
Quiet == \A r \in DOMAIN hiring : ~InFlight(r)

----------------------------------------------------------------------------
(* User routes *)

(* A lookup of POST /users that never finds a document. *)
userExistsNever(email) == {}

(* userCollection.findOne({ email }). *)
userExists(email) == {u \in userCollection : u.email = email}

(* POST /users up to the answer of its findOne: 400 without an e-mail,    *)
(* "User already exists" with insertedId null when the lowercased e-mail  *)
(* is found, otherwise the request goes on to its insertOne.              *)
PostUsersFind(user) ==
    /\ Len(registering) < MaxRegistrations
    /\ IF ~Truthy(user.email)
       THEN /\ res' = 400
            /\ UNCHANGED registering
       ELSE LET email == toLowerCase(user.email) IN
            /\ registering' = Append(registering,
                  [user |-> user,
                   email |-> email,
                   insertedId |-> Null,
                   pc |-> IF userExists(email) # {} THEN "exists" ELSE "insert"])
            /\ UNCHANGED res
    /\ UNCHANGED <<userCollection, tuitionCollection, applicationCollection,
                   paymentCollection, tuitionIds, hiring>>

(* The document POST /users inserts. *)
newUser(user, email) ==
    [_id |-> Cardinality(userCollection) + 1,
     email |-> email,
     role |-> IF Truthy(user.role) THEN user.role ELSE "student",
     status |-> IF user.role = "tutor" THEN "pending" ELSE "active"]

(* POST /users from its insertOne to its 201 answer. *)
PostUsersInsert(r) ==
    /\ r \in DOMAIN registering
    /\ registering[r].pc = "insert"
    /\ LET doc == newUser(registering[r].user, registering[r].email) IN
         /\ userCollection' = userCollection \cup {doc}
         /\ registering' = [registering EXCEPT ![r].pc = "created",
                                               ![r].insertedId = doc._id]
    /\ UNCHANGED <<tuitionCollection, applicationCollection, paymentCollection,
                   tuitionIds, hiring, res>>

(* The $set of PATCH /users/:id: the body without _id, email and createdAt. *)
fieldsToUpdate(doc, updatedDoc) ==
    [doc EXCEPT !.role = IF updatedDoc.role = Undefined THEN @ ELSE updatedDoc.role,
                !.status = IF updatedDoc.status = Undefined THEN @
                           ELSE updatedDoc.status]

(* A PATCH /users/:id without the admin check. *)
patchUsersIdAnyRole(cred, id, updatedDoc) ==
    LET auth == verifyFBToken(cred)
        same == [code |-> 0, users |-> userCollection]
    IN
    IF auth # 0 THEN [same EXCEPT !.code = auth]
    ELSE IF ObjectIdThrows(id) THEN [same EXCEPT !.code = 500]
    ELSE [code |-> 200,
          users |-> {IF u._id = ObjectId(id) THEN fieldsToUpdate(u, updatedDoc)
                     ELSE u : u \in userCollection}]

(* PATCH /users/:id: admin only. *)
patchUsersId(cred, id, updatedDoc) ==
    LET auth == verifyFBToken(cred)
        same == [code |-> 0, users |-> userCollection]
    IN
    IF auth # 0 THEN [same EXCEPT !.code = auth]
    ELSE IF reqUser(cred).role # "admin" THEN [same EXCEPT !.code = 403]
    ELSE IF ObjectIdThrows(id) THEN [same EXCEPT !.code = 500]
    ELSE [code |-> 200,
          users |-> {IF u._id = ObjectId(id) THEN fieldsToUpdate(u, updatedDoc)
                     ELSE u : u \in userCollection}]

PatchUsersId(cred, id, updatedDoc) ==
    /\ LET r == patchUsersId(cred, id, updatedDoc) IN
         /\ userCollection' = r.users
         /\ res' = r.code
    /\ UNCHANGED <<registering, tuitionCollection, applicationCollection,
                   paymentCollection, tuitionIds, hiring>>

(* PATCH /users/profile/update: $set of displayName, email.toLowerCase()  *)
(* and photoURL on the requester's own document; a body without email     *)
(* throws on email.toLowerCase() and the catch answers 500.               *)
patchUsersProfileUpdate(cred, body) ==
    LET auth == verifyFBToken(cred)
        same == [code |-> 0, users |-> userCollection]
    IN
    IF auth # 0 THEN [same EXCEPT !.code = auth]
    ELSE IF body.email = Undefined THEN [same EXCEPT !.code = 500]
    ELSE LET requester == reqUser(cred) IN
         [code |-> 200,
          users |-> {IF u._id = requester._id
                     THEN [u EXCEPT !.email = toLowerCase(body.email)]
                     ELSE u : u \in userCollection}]

PatchUsersProfileUpdate(cred, body) ==
    /\ LET r == patchUsersProfileUpdate(cred, body) IN
         /\ userCollection' = r.users
         /\ res' = r.code
    /\ UNCHANGED <<registering, tuitionCollection, applicationCollection,
                   paymentCollection, tuitionIds, hiring>>

----------------------------------------------------------------------------
(* Requests of the model *)

TuitionRefs == 0 .. MaxTuitions
ApplicationRefs == 0 .. MaxApplications

(* Bodies of POST and PATCH /tuitions. *)
TuitionBodies ==
    [status : {Undefined, "", "approved", "rejected", "confirmed", "bogus"},
     email : {Undefined, "tut"}]

(* Bodies of POST /applications. *)
ApplicationBodies ==
    [tuitionId : 1 .. MaxTuitions,
     studentEmail : {"stu"},
     status : {Undefined, "accepted"}]

(* Bodies of POST /payments. *)
PaymentBodies == [applicationId : ApplicationRefs, tuitionId : TuitionRefs]

(* The users of the database when the server starts. *)
InitialUsers ==
    {[_id |-> 1, email |-> "adm", role |-> "admin", status |-> "active"],
     [_id |-> 2, email |-> "stu", role |-> "student", status |-> "active"],
     [_id |-> 3, email |-> "tut", role |-> "tutor", status |-> "pending"]}

UserRefs == 0 .. Cardinality(InitialUsers) + MaxRegistrations

(* Bodies of POST /users. *)
UserBodies ==
    [email : {Undefined, "Stu", "New", "new"},
     role : {Undefined, "tutor", "moderator"}]

(* Bodies of PATCH /users/:id. *)
UserUpdateBodies ==
    {[email |-> "new", role |-> "tutor", status |-> Undefined],
     [email |-> Undefined, role |-> Undefined, status |-> "active"]}

(* Bodies of PATCH /users/profile/update. *)
ProfileBodies == [email : {Undefined, "Stu", "New"}]

(* The shape of the state: the four collections of eTuitionBD_db and the *)
(* requests of the server.                                               *)
TypeOK ==
    /\ userCollection \subseteq
          [_id : UserRefs \ {Malformed}, email : {"adm", "stu", "tut", "new"},
           role : {"admin", "student", "tutor", "moderator"},
           status : {"active", "pending"}]
    /\ tuitionCollection \subseteq
          [_id : 1 .. MaxTuitions, email : {"adm", "stu", "tut"},
           status : {"pending", "approved", "rejected", "confirmed"}]
    /\ applicationCollection \subseteq
          [_id : 1 .. MaxApplications, tuitionId : TuitionRefs,
           tutorEmail : {"adm", "stu", "tut"}, studentEmail : {"stu", "tut"},
           status : {Undefined, "accepted", "rejected"}]
    /\ paymentCollection \subseteq
          [_id : 1 .. MaxPayments, applicationId : ApplicationRefs,
           tuitionId : TuitionRefs, paymentStatus : {"paid"}]
    /\ tuitionIds \in 0 .. MaxTuitions
    /\ \A r \in DOMAIN hiring :
          /\ hiring[r].applicationId \in ApplicationRefs
          /\ hiring[r].tuitionId \in TuitionRefs
          /\ hiring[r].caller \in {"adm", "stu", "tut"}
          /\ hiring[r].writes \in Seq(WriteNames)
          /\ hiring[r].pc \in {"accept", "rejectOthers", "confirm", "done", "failed"}
    /\ Len(hiring) <= MaxPayments
    /\ registering \in Seq([user : UserBodies, email : {"stu", "new"},
                            insertedId : UserRefs,
                            pc : {"insert", "exists", "created"}])
    /\ Len(registering) <= MaxRegistrations
    /\ res \in {0, 200, 400, 401, 403, 404, 500}

Init ==
    /\ userCollection = InitialUsers
    /\ tuitionCollection = {}
    /\ applicationCollection = {}
    /\ paymentCollection = {}
    /\ tuitionIds = 0
    /\ hiring = <<>>
    /\ registering = <<>>
    /\ res = 0

(* The requests of the hiring scenarios: the student posts tuitions and   *)
(* pays, the tutor applies, either of them asks to reject an application. *)
HiringRequest ==
    \/ \E body \in {[status |-> Undefined, email |-> Undefined]} :
          PostTuitions("stu", body)
    \/ \E body \in ApplicationBodies : PostApplications("tut", body)
    \/ \E cred \in {"stu", "tut"}, id \in ApplicationRefs :
          PatchApplicationsRejectId(cred, id)
    \/ \E body \in PaymentBodies : PostPayments("stu", body)

HiringStep ==
    \/ \E r \in 1 .. MaxPayments : HiringAccept(r)
    \/ \E r \in 1 .. MaxPayments : HiringRejectOthers(r)
    \/ \E r \in 1 .. MaxPayments : HiringConfirm(r)

(* Requests are handled concurrently: the writes of a hiring workflow      *)
(* interleave with every other request.                                    *)
Next == HiringRequest \/ HiringStep

Spec == Init /\ [][Next]_vars

(* The same requests, one at a time: a request arrives only when no hiring *)
(* workflow is in flight.                                                  *)
NextSerial == (Quiet /\ HiringRequest) \/ HiringStep

SpecSerial == Init /\ [][NextSerial]_vars

(* The tuition state machine: tuitions are created, updated and deleted by *)
(* an admin and two other users, and hiring workflows confirm them.        *)
NextTuition ==
    \/ \E cred \in {"adm", "stu", "tut"}, body \in TuitionBodies :
          PostTuitions(cred, body)
    \/ \E cred \in {"adm", "stu", "tut"}, id \in TuitionRefs, body \in TuitionBodies :
          PatchTuitionsId(cred, id, body)
    \/ \E cred \in {"adm", "stu", "tut"}, id \in TuitionRefs :
          DeleteTuitionsId(cred, id)
    \/ \E body \in [applicationId : {1}, tuitionId : 1 .. MaxTuitions] :
          PostPayments("stu", body)
    \/ HiringStep

SpecTuition == Init /\ [][NextTuition]_vars

(* The users: registrations overlap with each other and with the updates  *)
(* of an admin and of a student.                                          *)
NextUsers ==
    \/ \E user \in UserBodies : PostUsersFind(user)
    \/ \E r \in 1 .. MaxRegistrations : PostUsersInsert(r)
    \/ \E cred \in {"adm", "stu"}, id \in UserRefs, updatedDoc \in UserUpdateBodies :
          PatchUsersId(cred, id, updatedDoc)
    \/ \E body \in ProfileBodies : PatchUsersProfileUpdate("stu", body)

SpecUsers == Init /\ [][NextUsers]_vars

(* The hiring scenarios with a record store that may fail any write of a  *)
(* hiring workflow.                                                       *)
NextFailure ==
    \/ \E body \in {[status |-> Undefined, email |-> Undefined]} :
          PostTuitions("stu", body)
    \/ \E body \in {b \in ApplicationBodies : b.status = Undefined} :
          PostApplications("tut", body)
    \/ \E body \in PaymentBodies : PostPayments("stu", body)
    \/ \E body \in PaymentBodies : PostPaymentsStoreFails("stu", body)
    \/ HiringStep
    \/ \E r \in 1 .. MaxPayments : HiringStoreFails(r)
    \/ VerifyFBTokenStoreFails("stu")
    \/ GetTuitionApplicationsStoreFails("stu")

SpecFailure == Init /\ [][NextFailure]_vars

(* Credentials of the requests to the routes behind verifyFBToken: none,   *)
(* a rejected token, the token of an e-mail that has no user record until  *)
(* it registers, and the token of a student.                               *)
Credentials == {NoHeader, InvalidToken, "new", "stu"}

(* The routes that write tuitions, applications and payments, called with  *)
(* every credential, and the registration of "new", one request at a time. *)
AuthRequest ==
    \/ \E cred \in Credentials : PostTuitions(cred, [status |-> Undefined, email |-> Undefined])
    \/ \E cred \in Credentials, id \in TuitionRefs :
          PatchTuitionsId(cred, id, [status |-> Undefined, email |-> Undefined])
    \/ \E cred \in Credentials, id \in TuitionRefs : DeleteTuitionsId(cred, id)
    \/ \E cred \in Credentials :
          PostApplications(cred, [tuitionId |-> 1, studentEmail |-> "stu", status |-> Undefined])
    \/ \E cred \in Credentials, id \in ApplicationRefs : PatchApplicationsRejectId(cred, id)
    \/ \E cred \in Credentials : PostPayments(cred, [applicationId |-> 1, tuitionId |-> 1])
    \/ /\ \A r \in DOMAIN registering : registering[r].pc # "insert"
       /\ PostUsersFind([email |-> "new", role |-> Undefined])

NextAuth ==
    \/ Quiet /\ AuthRequest
    \/ HiringStep
    \/ \E r \in 1 .. MaxRegistrations : PostUsersInsert(r)

SpecAuth == Init /\ [][NextAuth]_vars

----------------------------------------------------------------------------
(* Vocabulary of the properties *)

TuitionStatuses == {"pending", "approved", "rejected", "confirmed"}

(* The applications that reference the tuition with this _id. *)
ApplicationsOf(tid) ==
    {a \in applicationCollection :
        ~ObjectIdThrows(a.tuitionId) /\ ObjectId(a.tuitionId) = tid}

(* The payment records that reference the tuition with this _id. *)
PaymentsOf(tid) ==
    {p \in paymentCollection :
        ~ObjectIdThrows(p.tuitionId) /\ ObjectId(p.tuitionId) = tid}

Accepted(apps) == {a \in apps : a.status = "accepted"}

(* Run r pays for an application A that exists and references the tuition *)
(* T the run names, and T exists.                                         *)
PaysForApplicationOfTuition(r) ==
    /\ ~ObjectIdThrows(hiring[r].applicationId)
    /\ ~ObjectIdThrows(hiring[r].tuitionId)
    /\ \E a \in applicationCollection :
          /\ a._id = ObjectId(hiring[r].applicationId)
          /\ a.tuitionId = hiring[r].tuitionId
    /\ FindById(tuitionCollection, ObjectId(hiring[r].tuitionId)) # {}

(* The outcome the hiring workflow is meant to leave for run r. *)
Hired(r) ==
    /\ \A a \in ApplicationsOf(ObjectId(hiring[r].tuitionId)) :
          a.status = IF a._id = ObjectId(hiring[r].applicationId)
                        THEN "accepted" ELSE "rejected"
    /\ \A t \in FindById(tuitionCollection, ObjectId(hiring[r].tuitionId)) :
          t.status = "confirmed"
    /\ \E p \in paymentCollection :
          /\ p.paymentStatus = "paid"
          /\ p.applicationId = hiring[r].applicationId
          /\ p.tuitionId = hiring[r].tuitionId

----------------------------------------------------------------------------
(* Properties of the hiring workflow *)

(* C1: when a hiring workflow runs to completion with no other request in  *)
(* between, for an application A of a tuition T, then at its completion A  *)
(* is accepted, every other application of T is rejected, T is confirmed   *)
(* and a paid payment record references A and T.                           *)
C1_SoloHiringOutcome ==
    [][\A r \in DOMAIN hiring :
          (/\ hiring[r].pc = "confirm"
           /\ hiring'[r].pc = "done"
           /\ PaysForApplicationOfTuition(r)) => Hired(r)']_vars

(* C1 witness: a completed run that accepted A, rejected a competitor B of *)
(* the same tuition and confirmed the tuition.                             *)
C1_Witness ==
    \E r \in DOMAIN hiring :
        /\ hiring[r].pc = "done"
        /\ PaysForApplicationOfTuition(r)
        /\ Hired(r)
        /\ Cardinality(ApplicationsOf(ObjectId(hiring[r].tuitionId))) >= 2

(* C2: in every reachable state each tuition has at most one accepted      *)
(* application.                                                            *)
C2_AtMostOneAccepted ==
    \A t \in tuitionCollection :
        Cardinality(Accepted(ApplicationsOf(t._id))) <= 1

(* Runs r1 and r2 pay for two different applications of one tuition. *)
Rivals(r1, r2) ==
    /\ r1 # r2
    /\ PaysForApplicationOfTuition(r1)
    /\ PaysForApplicationOfTuition(r2)
    /\ hiring[r1].tuitionId = hiring[r2].tuitionId
    /\ hiring[r1].applicationId # hiring[r2].applicationId

(* C3: hiring workflows for two applications of one tuition do not exclude *)
(* each other: while run r1 is between its write 2 and its write 3, with   *)
(* its application accepted, run r2 can perform its own write 2 at once,   *)
(* and that step leaves both applications accepted.                        *)
C3_NotMutuallyExcluded ==
    \A r1, r2 \in DOMAIN hiring :
        (/\ Rivals(r1, r2)
         /\ hiring[r1].pc = "rejectOthers"
         /\ hiring[r2].pc = "accept"
         /\ \E a \in applicationCollection :
               a._id = ObjectId(hiring[r1].applicationId) /\ a.status = "accepted")
        => ENABLED (/\ HiringAccept(r2)
                    /\ \A a \in applicationCollection' :
                          a._id \in {ObjectId(hiring[r1].applicationId),
                                     ObjectId(hiring[r2].applicationId)}
                          => a.status = "accepted")

(* C3 witness: both runs have performed write 2, neither has performed     *)
(* write 3, and the tuition has two accepted applications.                 *)
C3_Witness ==
    \E r1, r2 \in DOMAIN hiring :
        /\ Rivals(r1, r2)
        /\ hiring[r1].pc = "rejectOthers"
        /\ hiring[r2].pc = "rejectOthers"
        /\ Cardinality(Accepted(ApplicationsOf(ObjectId(hiring[r1].tuitionId)))) = 2

(* C4: once two overlapping hiring workflows for two applications A and B  *)
(* of one tuition T have both completed, exactly one of A and B is         *)
(* accepted, the other is rejected and T is confirmed.                     *)
C4_OneWinnerAfterRace ==
    \A r1, r2 \in DOMAIN hiring :
        (/\ Rivals(r1, r2)
         /\ hiring[r1].pc = "done"
         /\ hiring[r2].pc = "done")
        => /\ \E a, b \in applicationCollection :
                 /\ {a._id, b._id} = {ObjectId(hiring[r1].applicationId),
                                      ObjectId(hiring[r2].applicationId)}
                 /\ a.status = "accepted"
                 /\ b.status = "rejected"
           /\ \A t \in FindById(tuitionCollection, ObjectId(hiring[r1].tuitionId)) :
                 t.status = "confirmed"

(* C5: every confirmed tuition has an accepted application and a payment   *)
(* record that reference it.                                               *)
C5_ConfirmedHasAcceptedAndPayment ==
    \A t \in tuitionCollection :
        t.status = "confirmed"
        => /\ Accepted(ApplicationsOf(t._id)) # {}
           /\ PaymentsOf(t._id) # {}

----------------------------------------------------------------------------
(* Properties of the tuition state machine *)

(* C6: the stored status of every tuition is one of pending, approved,     *)
(* rejected, confirmed.                                                    *)
C6_StatusEnumerated ==
    \A t \in tuitionCollection : t.status \in TuitionStatuses

(* C6 witness: a creation, an admin review and a hiring workflow have      *)
(* acted, and an update carrying a status outside the enumeration was just *)
(* answered.                                                               *)
C6_Witness ==
    /\ \E t \in tuitionCollection : t.status = "confirmed"
    /\ \E t \in tuitionCollection : t.status = "rejected"
    /\ res = 400

(* The caller is a registered user whose role is not admin. *)
NonAdmin(cred) == verifyFBToken(cred) = 0 /\ reqUser(cred).role # "admin"

(* The caller is a registered user whose role is admin. *)
IsAdmin(cred) == verifyFBToken(cred) = 0 /\ reqUser(cred).role = "admin"

(* C7: a successful PATCH /tuitions/:id by a non-admin caller leaves the   *)
(* tuition pending, whatever its status was and whatever status the body   *)
(* carries.                                                                *)
C7_CreatorEditResetsToPending ==
    \A cred \in {"adm", "stu", "tut"}, id \in TuitionRefs, body \in TuitionBodies :
        (NonAdmin(cred) /\ patchTuitionsId(cred, id, body).code = 200)
        => \A t \in FindById(patchTuitionsId(cred, id, body).tuitions, ObjectId(id)) :
              t.status = "pending"

(* C7 witness: a tuition that a completed hiring workflow had confirmed is *)
(* pending again, right after a successful request: its creator edited it. *)
C7_Witness ==
    /\ res = 200
    /\ \E r \in DOMAIN hiring :
          /\ hiring[r].pc = "done"
          /\ \E t \in FindById(tuitionCollection, ObjectId(hiring[r].tuitionId)) :
                t.status = "pending"

(* C8: a PATCH /tuitions/:id by an admin, for a stored tuition, whose body *)
(* carries a status other than approved and rejected is answered 400 and   *)
(* leaves the collection as it was.                                        *)
C8_AdminInvalidStatusRefused ==
    \A cred \in {"adm", "stu", "tut"}, id \in TuitionRefs, body \in TuitionBodies :
        (/\ IsAdmin(cred)
         /\ ~ObjectIdThrows(id)
         /\ FindById(tuitionCollection, ObjectId(id)) # {}
         /\ body.status # Undefined
         /\ body.status \notin {"approved", "rejected"})
        => /\ patchTuitionsId(cred, id, body).code = 400
           /\ patchTuitionsId(cred, id, body).tuitions = tuitionCollection

(* The tuition with this _id is confirmed in the collection. *)
ConfirmedIn(coll, tid) == \E t \in coll : t._id = tid /\ t.status = "confirmed"

(* C9: a tuition becomes confirmed only by write 4 of a hiring workflow    *)
(* that names it; no create or update request confirms a tuition.          *)
C9_ConfirmedOnlyByHiring ==
    [][\A tid \in 1 .. MaxTuitions :
          (~ConfirmedIn(tuitionCollection, tid) /\ ConfirmedIn(tuitionCollection', tid))
          => \E r \in DOMAIN hiring :
                /\ HiringConfirm(r)
                /\ ~ObjectIdThrows(hiring[r].tuitionId)
                /\ ObjectId(hiring[r].tuitionId) = tid]_vars

(* C9 witness: a tuition is confirmed and a completed run names it. *)
C9_Witness ==
    \E r \in DOMAIN hiring :
        /\ hiring[r].pc = "done"
        /\ ConfirmedIn(tuitionCollection, ObjectId(hiring[r].tuitionId))

(* C10: a tuition whose status is pending is never set to confirmed. *)
C10_PendingNeverConfirmed ==
    [][\A t \in tuitionCollection :
          t.status = "pending" => ~ConfirmedIn(tuitionCollection', t._id)]_vars

(* The caller of run r is an admin or created the tuition the run names. *)
EntitledToHire(r) ==
    \/ \E u \in userCollection : u.email = hiring[r].caller /\ u.role = "admin"
    \/ \E t \in tuitionCollection :
          /\ ~ObjectIdThrows(hiring[r].tuitionId)
          /\ t._id = ObjectId(hiring[r].tuitionId)
          /\ t.email = hiring[r].caller

(* C11: a write of a hiring workflow changes an application or a tuition  *)
(* only when the caller of its POST /payments is entitled to hire for the *)
(* tuition the request names: its creator, or an admin.                   *)
C11_HiringOnlyByEntitledCaller ==
    [][\A r \in DOMAIN hiring :
          (/\ HiringAccept(r) \/ HiringRejectOthers(r) \/ HiringConfirm(r)
           /\ \/ applicationCollection' # applicationCollection
              \/ tuitionCollection' # tuitionCollection)
          => EntitledToHire(r)]_vars

(* The caller is verified, is no admin, and the id names a stored tuition *)
(* that another user created.                                             *)
StrangerTo(cred, id) ==
    /\ NonAdmin(cred)
    /\ ~ObjectIdThrows(id)
    /\ \E t \in FindById(tuitionCollection, ObjectId(id)) :
          t.email # decoded_email(cred)

(* C12: a PATCH /tuitions/:id by a verified caller who is neither admin   *)
(* nor the creator of the tuition is answered 403 and leaves the tuition  *)
(* collection as it was, whatever the body.                               *)
C12_StrangerEditForbidden ==
    \A cred \in {"adm", "stu", "tut"}, id \in TuitionRefs, body \in TuitionBodies :
        StrangerTo(cred, id)
        => /\ patchTuitionsId(cred, id, body).code = 403
           /\ patchTuitionsId(cred, id, body).tuitions = tuitionCollection

(* C12 witness: a 403 has been answered while a non-admin can name a      *)
(* tuition of another user, and a PATCH of it is answered 403.            *)
C12_Witness ==
    /\ res = 403
    /\ \E cred \in {"stu", "tut"}, id \in TuitionRefs, body \in TuitionBodies :
          /\ StrangerTo(cred, id)
          /\ body.status = "approved"
          /\ patchTuitionsId(cred, id, body).code = 403

(* C13: a PATCH /tuitions/:id with an id that is no object id is answered *)
(* 400, for every verified caller and every body, and changes nothing.    *)
C13_MalformedIdIsBadInput ==
    \A cred \in {"adm", "stu", "tut"}, body \in TuitionBodies :
        verifyFBToken(cred) = 0
        => /\ patchTuitionsId(cred, Malformed, body).code = 400
           /\ patchTuitionsId(cred, Malformed, body).tuitions = tuitionCollection

(* C14: no step changes the stored email of a tuition: a document that is *)
(* still in the collection after a step has the email it had before.      *)
C14_TuitionEmailWriteOnce ==
    [][\A t \in tuitionCollection, u \in tuitionCollection' :
          t._id = u._id => u.email = t.email]_vars

(* C15: no step changes the stored email of a user: a document that is    *)
(* still in the collection after a step has the email it had before.      *)
C15_UserEmailWriteOnce ==
    [][\A u \in userCollection, v \in userCollection' :
          u._id = v._id => v.email = u.email]_vars

(* C16: a POST /users that arrives while a user with the lowercased e-mail *)
(* of its body is stored is answered "User already exists" with a null     *)
(* insertedId and changes no user; a request so answered does nothing      *)
(* afterwards.                                                             *)
C16_RegistrationIdempotent ==
    [][/\ \A r \in DOMAIN registering' \ DOMAIN registering :
             (\E u \in userCollection :
                 u.email = toLowerCase(registering'[r].user.email))
             => /\ registering'[r].pc = "exists"
                /\ registering'[r].insertedId = Null
                /\ userCollection' = userCollection
       /\ \A r \in DOMAIN registering :
             registering[r].pc = "exists"
             => registering'[r] = registering[r] /\ ~PostUsersInsert(r)]_vars

(* C16 witness: a registration whose e-mail differs from a stored one only *)
(* in case has been answered "User already exists", after an earlier       *)
(* registration created that user.                                         *)
C16_Witness ==
    \E r, q \in DOMAIN registering :
        /\ registering[q].pc = "created"
        /\ registering[r].pc = "exists"
        /\ registering[r].email = registering[q].email
        /\ registering[r].user.email # registering[r].email
        /\ registering[r].insertedId = Null
        /\ Cardinality(userCollection) = Cardinality(InitialUsers) + 1

(* C17: no two documents of userCollection carry the same email. *)
C17_UserEmailUnique ==
    \A u, v \in userCollection : u.email = v.email => u._id = v._id

(* The payment record that write 1 of run r inserted is stored. *)
PaymentStored(r) ==
    \E p \in paymentCollection :
        /\ p._id = r
        /\ p.applicationId = hiring[r].applicationId
        /\ p.tuitionId = hiring[r].tuitionId

(* C18: a POST /payments whose applicationId or tuitionId is no object id *)
(* has performed no write and has left no payment record.                 *)
C18_MalformedIdFailsBeforeInsert ==
    \A r \in DOMAIN hiring :
        (ObjectIdThrows(hiring[r].applicationId) \/ ObjectIdThrows(hiring[r].tuitionId))
        => /\ hiring[r].writes = <<>>
           /\ ~ \E p \in paymentCollection : p._id = r

(* The run has answered 500 from its catch. *)
Failed(run) == run.pc = "failed"

(* C19: the writes a hiring workflow has performed are a prefix of payment *)
(* insert, accept, reject competitors, confirm, and the payment record of  *)
(* a run that inserted it stays stored; the step in which a write fails    *)
(* answers with the failure, performs no write and changes no collection;  *)
(* a failed run performs nothing afterwards.                               *)
C19_WritesInOrderNoRollback ==
    /\ [](\A r \in DOMAIN hiring :
            /\ Len(hiring[r].writes) <= Len(WriteOrder)
            /\ hiring[r].writes = SubSeq(WriteOrder, 1, Len(hiring[r].writes))
            /\ Len(hiring[r].writes) >= 1 => PaymentStored(r)
            /\ hiring[r].pc = "done" => hiring[r].writes = WriteOrder)
    /\ [][/\ \A r \in DOMAIN hiring :
               /\ (~Failed(hiring[r]) /\ Failed(hiring'[r]))
                  => /\ hiring'[r].writes = hiring[r].writes
                     /\ UNCHANGED <<userCollection, tuitionCollection,
                                    applicationCollection, paymentCollection>>
               /\ Failed(hiring[r]) => hiring'[r] = hiring[r]
          /\ \A r \in DOMAIN hiring' \ DOMAIN hiring :
               Failed(hiring'[r])
               => /\ hiring'[r].writes = <<>>
                  /\ UNCHANGED <<userCollection, tuitionCollection,
                                 applicationCollection, paymentCollection>>]_vars

(* C19 witness: a run has failed after its first two writes; its payment   *)
(* record is stored, the application it accepted is still accepted, its    *)
(* tuition is not confirmed.                                               *)
C19_Witness ==
    \E r \in DOMAIN hiring :
        /\ Failed(hiring[r])
        /\ hiring[r].writes = <<"insert", "accept">>
        /\ PaymentStored(r)
        /\ \E a \in applicationCollection :
              a._id = ObjectId(hiring[r].applicationId) /\ a.status = "accepted"
        /\ \E t \in tuitionCollection :
              t._id = ObjectId(hiring[r].tuitionId) /\ t.status = "pending"

(* Tokens whose e-mail is spelled in lower or in upper case. *)
TokenEmails == {"adm", "stu", "tut", "Stu", "Tut"}

(* Bodies of POST /applications that name an owner themselves. *)
ApplicationBodiesWithOwner ==
    [tuitionId : 1 .. MaxTuitions, studentEmail : {"stu"},
     status : {Undefined}, tutorEmail : {Undefined, "adm", "stu", "Stu"}]

(* C20: the document a verified caller creates with POST /tuitions has    *)
(* the caller's lowercased token e-mail as email, and the document created *)
(* with POST /applications has it as tutorEmail, whatever the body says.   *)
C20_OwnerIsVerifiedCaller ==
    \A cred \in TokenEmails :
        verifyFBToken(cred) = 0
        => /\ \A body \in TuitionBodies :
                /\ postTuitions(cred, body).code = 200
                /\ \A t \in postTuitions(cred, body).tuitions \ tuitionCollection :
                      t.email = toLowerCase(cred)
           /\ \A body \in ApplicationBodiesWithOwner :
                /\ postApplications(cred, body).code = 200
                /\ \A a \in postApplications(cred, body).applications
                             \ applicationCollection :
                      a.tutorEmail = toLowerCase(cred)

(* C20 witness: a tuition of stu and an application of tut are stored, and *)
(* a further application by a token spelled Tut, with a body that names    *)
(* stu as tutorEmail, would be stored as tut's.                            *)
C20_Witness ==
    /\ \E t \in tuitionCollection : t.email = "stu"
    /\ \E a \in applicationCollection : a.tutorEmail = "tut"
    /\ \E body \in ApplicationBodiesWithOwner :
          /\ body.tutorEmail = "stu"
          /\ \E a \in postApplications("Tut", body).applications
                       \ applicationCollection : a.tutorEmail = "tut"

----------------------------------------------------------------------------
(* Properties of the application state machine *)

(* C21: an application document becomes accepted only by write 2 of a     *)
(* hiring workflow that names it, whose payment record is stored; no       *)
(* other step creates or leaves a newly accepted application.              *)
C21_AcceptedOnlyByHiring ==
    [][\A a \in applicationCollection' :
          (a.status = "accepted" /\ a \notin applicationCollection)
          => \E r \in DOMAIN hiring :
                /\ HiringAccept(r)
                /\ ~ObjectIdThrows(hiring[r].applicationId)
                /\ ObjectId(hiring[r].applicationId) = a._id
                /\ PaymentStored(r)]_vars

(* The stored application with this id, as a set of 0 or 1 documents. *)
ApplicationAt(id) ==
    IF ObjectIdThrows(id) THEN {} ELSE FindById(applicationCollection, ObjectId(id))

(* The status of the application with this _id in a collection. *)
StatusIn(coll, a) == (CHOOSE d \in coll : d._id = a._id).status

----------------------------------------------------------------------------
(* Properties of deletion *)

(* C24: a tuition leaves the collection only in a DELETE /tuitions/:id of  *)
(* it by an admin or by the user its email names as creator; a DELETE of a *)
(* stored tuition by any other verified caller is answered 403 and leaves  *)
(* the collection as it was.                                               *)
C24_DeleteOnlyByCreatorOrAdmin ==
    /\ [](\A cred \in {"adm", "stu", "tut"}, id \in TuitionRefs :
            StrangerTo(cred, id)
            => /\ deleteTuitionsId(cred, id).code = 403
               /\ deleteTuitionsId(cred, id).tuitions = tuitionCollection)
    /\ [][\A t \in tuitionCollection :
            (~ \E u \in tuitionCollection' : u._id = t._id)
            => \E cred \in {"adm", "stu", "tut"} :
                  /\ DeleteTuitionsId(cred, t._id)
                  /\ IsAdmin(cred) \/ decoded_email(cred) = t.email]_vars

(* C24 witness: one of two tuitions has been deleted, and a DELETE of the  *)
(* other by a non-admin who did not create it is answered 403.             *)
C24_Witness ==
    /\ res = 200
    /\ tuitionIds = 2
    /\ Cardinality(tuitionCollection) = 1
    /\ \E cred \in {"stu", "tut"}, id \in TuitionRefs :
          StrangerTo(cred, id) /\ deleteTuitionsId(cred, id).code = 403

----------------------------------------------------------------------------
(* Properties of the user records *)

(* C25: a PATCH /users/:id by a verified non-admin is answered 403 and    *)
(* changes no user; a PATCH /users/profile/update leaves the role and the *)
(* status of the caller and the whole record of every other user as they  *)
(* were; a step that changes the role or the status of a user is a PATCH  *)
(* /users/:id by an admin.                                                *)
C25_RoleAndStatusOnlyByAdmin ==
    /\ [](\A cred \in {"adm", "stu"} :
            /\ \A id \in UserRefs, updatedDoc \in UserUpdateBodies :
                  NonAdmin(cred)
                  => /\ patchUsersId(cred, id, updatedDoc).code = 403
                     /\ patchUsersId(cred, id, updatedDoc).users = userCollection
            /\ \A body \in ProfileBodies :
                  verifyFBToken(cred) = 0
                  => \A u \in userCollection :
                        \E v \in patchUsersProfileUpdate(cred, body).users :
                           /\ v._id = u._id
                           /\ v.role = u.role
                           /\ v.status = u.status
                           /\ u._id # reqUser(cred)._id => v = u)
    /\ [][\A u \in userCollection, v \in userCollection' :
            (u._id = v._id /\ (v.role # u.role \/ v.status # u.status))
            => \E cred \in {"adm", "stu"} :
                  /\ IsAdmin(cred)
                  /\ \E id \in UserRefs, updatedDoc \in UserUpdateBodies :
                        PatchUsersId(cred, id, updatedDoc)]_vars

(* C25 witness: the admin has made the student a tutor, the student has   *)
(* updated his profile, and a PATCH /users/:id has been refused.          *)
C25_Witness ==
    /\ res = 403
    /\ \E u \in userCollection :
          u._id = 2 /\ u.role = "tutor" /\ u.email = "new"

(* The roles and statuses of a user record. *)
UserRoles == {"student", "tutor", "admin"}
UserStatuses == {"active", "pending"}

(* C26: every stored user has a role among student, tutor, admin and a    *)
(* status among active, pending, and the document a registration is about *)
(* to insert has status pending for a tutor and active for every other    *)
(* role.                                                                  *)
C26_UserRoleAndStatusEnumerated ==
    /\ \A u \in userCollection : u.role \in UserRoles /\ u.status \in UserStatuses
    /\ \A r \in DOMAIN registering :
          registering[r].pc = "insert"
          => LET doc == newUser(registering[r].user, registering[r].email) IN
             doc.status = IF doc.role = "tutor" THEN "pending" ELSE "active"

----------------------------------------------------------------------------
(* Properties of the responses *)

(* The 5xx status codes. *)
ServerErrors == 500 .. 599

(* C27: a failure of the record store during a request with a valid token *)
(* is answered with a 5xx status, in the middleware as in the handler of  *)
(* GET /tuition-applications/:tuitionId.                                  *)
C27_StoreFailureIsUpstreamFailure ==
    \A cred \in {"adm", "stu", "tut"} :
        verifyFBToken(cred) = 0
        => /\ verifyFBTokenStoreFails(cred) \in ServerErrors
           /\ getTuitionApplicationsStoreFails \subseteq ServerErrors

----------------------------------------------------------------------------
(* Further properties of the hiring workflow *)

(* C28: a hiring workflow that completes by confirming a stored tuition,   *)
(* having accepted a stored application, accepted an application of that   *)
(* same tuition.                                                           *)
C28_AcceptedBelongsToConfirmed ==
    [][\A r \in DOMAIN hiring :
          /\ HiringConfirm(r)
          /\ FindById(tuitionCollection, ObjectId(hiring[r].tuitionId)) # {}
          => \A a \in ApplicationAt(hiring[r].applicationId) :
                a.status = "accepted" => a.tuitionId = hiring[r].tuitionId]_vars

----------------------------------------------------------------------------
(* Properties of the middleware *)

(* A request without a bearer credential, with a credential the identity  *)
(* verifier rejects, or with the token of an e-mail that has no user      *)
(* record.                                                                *)
Unverified(cred) ==
    \/ cred = NoHeader
    \/ cred = InvalidToken
    \/ \A u \in userCollection : u.email # cred

Refused == {401, 403}

(* C29: a request to a route that writes tuitions, applications or        *)
(* payments, made with no credential, a rejected credential or the token  *)
(* of an e-mail without a user record, is answered 401 or 403 and leaves  *)
(* the three collections unchanged.                                       *)
C29_UnverifiedRequestIsRefused ==
    /\ [](\A cred \in Credentials :
            Unverified(cred)
            => /\ \A body \in TuitionBodies :
                     LET r == postTuitions(cred, body) IN
                     r.code \in Refused /\ r.tuitions = tuitionCollection
               /\ \A id \in TuitionRefs, body \in TuitionBodies :
                     LET r == patchTuitionsId(cred, id, body) IN
                     r.code \in Refused /\ r.tuitions = tuitionCollection
               /\ \A id \in TuitionRefs :
                     LET r == deleteTuitionsId(cred, id) IN
                     r.code \in Refused /\ r.tuitions = tuitionCollection
               /\ \A body \in ApplicationBodies :
                     LET r == postApplications(cred, body) IN
                     r.code \in Refused /\ r.applications = applicationCollection
               /\ \A id \in ApplicationRefs :
                     LET r == patchApplicationsRejectId(cred, id) IN
                     r.code \in Refused /\ r.applications = applicationCollection)
    /\ [][\A cred \in Credentials :
             /\ Unverified(cred)
             /\ \E body \in PaymentBodies : PostPayments(cred, body)
             => /\ res' \in Refused
                /\ UNCHANGED <<tuitionCollection, applicationCollection,
                               paymentCollection, hiring>>]_vars

(* The e-mail "new" has no user record and the last request was answered  *)
(* 403 although tuitions, applications and payments exist.                *)
C29_Witness ==
    /\ res = 403
    /\ Unverified("new")
    /\ tuitionCollection # {}
    /\ applicationCollection # {}
    /\ paymentCollection # {}

----------------------------------------------------------------------------
(* Further properties of the tuition state machine *)

(* The stored tuition after an update that merges the e-mail of the body   *)
(* and keeps the status.                                                   *)
Merged(d, body) ==
    [d EXCEPT !.email = IF body.email = Undefined THEN @ ELSE body.email]

====
